---- MODULE Spec2Model ----
(***************************************************************************)
(* The vacation-day calculation engine of holiday-counter                  *)
(* (src/src/utils/date-utils.ts).                                          *)
(*                                                                         *)
(* Representation.                                                         *)
(*  - A JS Date is its time value, an integer number of HOURS since        *)
(*    2024-01-01T00:00Z (a Monday); NaN is the time value of an invalid    *)
(*    Date.  Calendar day d is the d-th day after 2024-01-01.              *)
(*  - A date string is a record: [kind |-> "empty"] is '', [kind |->       *)
(*    "text"] is a string Date cannot parse, [kind |-> "date", day |-> d]  *)
(*    is 'YYYY-MM-DD' (parsed as UTC midnight) and [kind |-> "datetime",   *)
(*    day |-> d, hour |-> h] is 'YYYY-MM-DDTHH:00' (parsed as local time). *)
(*  - Work-day values and vacationDaysNeeded are kept in HALF days         *)
(*    (0, 0.5, 1 are 0, 1, 2), so that they stay integers.                 *)
(*  - The host time zone tz and the Hebrew-calendar library (oracle) are   *)
(*    the environment; both are fixed when the program starts.             *)
(***************************************************************************)
EXTENDS Integers, Sequences, FiniteSets, TLC

VARIABLES
    tz,       \* host time zone: UTC offset `before` until UTC hour `at`, `after` from then on
    oracle,   \* @hebcal/core: local calendar day -> what getHolidaysOnDate does there
    op,       \* the exported function called last ("none" before the first call)
    args,     \* its arguments
    result,   \* what it returned
    queries,  \* the Dates getHebrewCalendarEvents was called with during the call
    threw     \* whether an exception escaped the call

vars == <<tz, oracle, op, args, result, queries, threw>>

-----------------------------------------------------------------------------
(* Bounds of the model *)

\* Calendar days 0..MaxDay can be named by an input string (0 is Monday 2024-01-01).
MaxDay == 6

\* formatDayCountHebrew is applied to -MaxCount/2 .. MaxCount/2 in steps of 0.5.
MaxCount == 60

-----------------------------------------------------------------------------
(* Time *)

\* 1000 * 60 * 60 * 24 milliseconds, in hours
DAY == 24

\* The time value of an invalid Date
NaN == -1000000

isNaN(t) == t = NaN

\* Math.ceil(a / b) for b > 0
Ceil(a, b) == -((-a) \div b)

\* The host's UTC offset at UTC time t
Offset(t) == IF t < tz.at THEN tz.before ELSE tz.after

\* Local wall-clock time (hours since local 2024-01-01T00:00) of time value t
LocalTime(t) == t + Offset(t)

\* UTC(local): a local time that repeats or is skipped at a transition is
\* interpreted with the offset before the transition (ECMA-262, 21.4.1.26)
LocalToUTC(l) ==
    LET t1 == l - tz.before
        t2 == l - tz.after
    IN  IF t1 >= tz.at /\ t2 >= tz.at THEN t2 ELSE t1

\* new Date(string)
NewDate(s) ==
    CASE s.kind = "date"     -> s.day * DAY
      [] s.kind = "datetime" -> LocalToUTC(s.day * DAY + s.hour)
      [] OTHER               -> NaN

\* date.getDay(): 0 = Sunday .. 6 = Saturday, of the local calendar day
getDay(date) == ((LocalTime(date) \div DAY) + 1) % 7

\* date.setDate(date.getDate() + 1): same local time of day, next local calendar day
NextDay(date) == LocalToUTC(LocalTime(date) + DAY)

\* date.toISOString().split('T')[0]: the UTC calendar day, as a 'YYYY-MM-DD' string
ISODate(date) == [kind |-> "date", day |-> date \div DAY]

\* createDateCopy
createDateCopy(date) == date

-----------------------------------------------------------------------------
(* Range validation and the day count *)

\* validateDateRange without the check of the order of the bounds
validateDateRange_unordered(startDate, endDate) ==
    IF startDate.kind = "empty" \/ endDate.kind = "empty"
    THEN [isValid |-> FALSE, error |-> "Both start and end dates are required"]
    ELSE LET start == NewDate(startDate)
             end   == NewDate(endDate)
         IN  IF isNaN(start)
             THEN [isValid |-> FALSE, error |-> "Invalid start date format"]
             ELSE IF isNaN(end)
             THEN [isValid |-> FALSE, error |-> "Invalid end date format"]
             ELSE [isValid |-> TRUE, start |-> start, end |-> end]

validateDateRange(startDate, endDate) ==
    IF startDate.kind = "empty" \/ endDate.kind = "empty"
    THEN [isValid |-> FALSE, error |-> "Both start and end dates are required"]
    ELSE LET start == NewDate(startDate)
             end   == NewDate(endDate)
         IN  IF isNaN(start)
             THEN [isValid |-> FALSE, error |-> "Invalid start date format"]
             ELSE IF isNaN(end)
             THEN [isValid |-> FALSE, error |-> "Invalid end date format"]
             ELSE IF start > end
             THEN [isValid |-> FALSE, error |-> "End date must be after start date"]
             ELSE [isValid |-> TRUE, start |-> start, end |-> end]

Null == [kind |-> "null"]

Number(n) == [kind |-> "number", value |-> n]

\* calculateDaysBetween without the + 1 of the inclusive range
calculateDaysBetween_exclusive(startDate, endDate) ==
    LET validation == validateDateRange(startDate, endDate)
    IN  IF ~validation.isValid
        THEN Null
        ELSE Number(Ceil(validation.end - validation.start, DAY))

calculateDaysBetween(startDate, endDate) ==
    LET validation == validateDateRange(startDate, endDate)
    IN  IF ~validation.isValid
        THEN Null
        ELSE LET diffTime == validation.end - validation.start
                 diffDays == Ceil(diffTime, DAY) + 1
             IN  Number(diffDays)

-----------------------------------------------------------------------------
(* The Hebrew calendar library and the event predicates *)

\* What HebrewCalendar.getHolidaysOnDate(new HDate(date), true) does on a local day
Throws == [kind |-> "throw"]

Undefined == [kind |-> "undefined"]

Events(evs) == [kind |-> "events", events |-> evs]

\* An Event: getFlags() is a set of flag bits, getDesc() a sequence of words
Event(f, d) == [flags |-> f, desc |-> d]

\* desc.includes('Erev')
includesErev(desc) == \E i \in DOMAIN desc : desc[i] = "Erev"

\* getHebrewCalendarEvents without the try/catch
getHebrewCalendarEvents_noCatch(date) ==
    LET answer == oracle[LocalTime(date) \div DAY]
    IN  CASE answer.kind = "throw"     -> [thrown |-> TRUE, events |-> <<>>]
          [] answer.kind = "undefined" -> [thrown |-> FALSE, events |-> <<>>]
          [] OTHER                     -> [thrown |-> FALSE, events |-> answer.events]

\* try { new HDate(date); getHolidaysOnDate(hd, true) || [] } catch { warn; return [] }
\* thrown: whether the exception leaves the function
getHebrewCalendarEvents(date) ==
    LET answer == oracle[LocalTime(date) \div DAY]
    IN  CASE answer.kind = "throw"     -> [thrown |-> FALSE, events |-> <<>>]
          [] answer.kind = "undefined" -> [thrown |-> FALSE, events |-> <<>>]
          [] OTHER                     -> [thrown |-> FALSE, events |-> answer.events]

isHalfDayEvent(event) ==
    \/ "EREV" \in event.flags
    \/ includesErev(event.desc)
    \/ event.desc = <<"Rosh", "Hashana", "LaBehemot">>
    \/ event.desc = <<"Tu", "BiShvat">>

isHolHamoedEvent(event) == "CHOL_HAMOED" \in event.flags

\* isMajorHolidayEvent with the Chol HaMoed flag counted when includeHolHamoed is off
isMajorHolidayEvent_invertedHolHamoed(event, includeHolHamoed) ==
    LET isMajorHoliday ==
            \/ ("CHAG" \in event.flags /\ ~("EREV" \in event.flags))
            \/ "YOM_TOV_ENDS" \in event.flags
            \/ (~includeHolHamoed /\ "CHOL_HAMOED" \in event.flags)
            \/ event.desc = <<"Yom", "HaZikaron">>
            \/ event.desc = <<"Yom", "HaAtzmaut">>
            \/ event.desc = <<"Yom", "Yerushalayim">>
    IN  isMajorHoliday /\ ~includesErev(event.desc)

\* isMajorHolidayEvent with the Chol HaMoed flag counted whatever includeHolHamoed is
isMajorHolidayEvent_alwaysHolHamoed(event, includeHolHamoed) ==
    LET isMajorHoliday ==
            \/ ("CHAG" \in event.flags /\ ~("EREV" \in event.flags))
            \/ "YOM_TOV_ENDS" \in event.flags
            \/ "CHOL_HAMOED" \in event.flags
            \/ event.desc = <<"Yom", "HaZikaron">>
            \/ event.desc = <<"Yom", "HaAtzmaut">>
            \/ event.desc = <<"Yom", "Yerushalayim">>
    IN  isMajorHoliday /\ ~includesErev(event.desc)

isMajorHolidayEvent(event, includeHolHamoed) ==
    LET isMajorHoliday ==
            \/ ("CHAG" \in event.flags /\ ~("EREV" \in event.flags))
            \/ "YOM_TOV_ENDS" \in event.flags
            \/ (includeHolHamoed /\ "CHOL_HAMOED" \in event.flags)
            \/ event.desc = <<"Yom", "HaZikaron">>
            \/ event.desc = <<"Yom", "HaAtzmaut">>
            \/ event.desc = <<"Yom", "Yerushalayim">>
    IN  isMajorHoliday /\ ~includesErev(event.desc)

-----------------------------------------------------------------------------
(* Day classification *)

FRIDAY == 5

SATURDAY == 6

isWeekend(date) ==
    LET dayOfWeek == getDay(date)
    IN  dayOfWeek = FRIDAY \/ dayOfWeek = SATURDAY

isJewishHalfDay(date) ==
    LET events == getHebrewCalendarEvents(date).events
    IN  \E i \in DOMAIN events : isHalfDayEvent(events[i])

isJewishHoliday(date, includeHolHamoed) ==
    LET events == getHebrewCalendarEvents(date).events
    IN  \E i \in DOMAIN events : isMajorHolidayEvent(events[i], includeHolHamoed)

\* getWorkDayValue with the holiday test before the half-day test
getWorkDayValue_holidayFirst(date, includeHolHamoed) ==
    IF isWeekend(date) THEN 0
    ELSE IF isJewishHoliday(date, includeHolHamoed) THEN 0
    ELSE IF isJewishHalfDay(date) THEN 1
    ELSE 2

\* In half days: 0 for weekends and full holidays, 1 (0.5) for half days, 2 (1) for work days
getWorkDayValue(date, includeHolHamoed) ==
    IF isWeekend(date) THEN 0
    ELSE IF isJewishHalfDay(date) THEN 1
    ELSE IF isJewishHoliday(date, includeHolHamoed) THEN 0
    ELSE 2

\* The Dates getWorkDayValue passes to getHebrewCalendarEvents
WorkDayValueQueries(date) == IF isWeekend(date) THEN {} ELSE {date}

-----------------------------------------------------------------------------
(* The holiday list of a range *)

\* HolidayEntries without the half-day events
HolidayEntries_majorOnly(currentDate, includeHolHamoed) ==
    LET events   == getHebrewCalendarEvents(currentDate).events
        included == SelectSeq(events,
                        LAMBDA event : isMajorHolidayEvent(event, includeHolHamoed))
    IN  [i \in 1..Len(included) |->
            [date        |-> ISODate(currentDate),
             name        |-> included[i].desc,
             isHalfDay   |-> isHalfDayEvent(included[i]),
             isHolHamoed |-> isHolHamoedEvent(included[i])]]

\* HolidayEntries with isHolHamoed recorded only when Chol HaMoed counts as a holiday
HolidayEntries_gatedFlag(currentDate, includeHolHamoed) ==
    LET events   == getHebrewCalendarEvents(currentDate).events
        included == SelectSeq(events,
                        LAMBDA event : \/ isHalfDayEvent(event)
                                       \/ isMajorHolidayEvent(event, includeHolHamoed))
    IN  [i \in 1..Len(included) |->
            [date        |-> ISODate(currentDate),
             name        |-> included[i].desc,
             isHalfDay   |-> isHalfDayEvent(included[i]),
             isHolHamoed |-> includeHolHamoed /\ isHolHamoedEvent(included[i])]]

\* events.forEach(...): the entries one date adds to holidays
HolidayEntries(currentDate, includeHolHamoed) ==
    LET events   == getHebrewCalendarEvents(currentDate).events
        included == SelectSeq(events,
                        LAMBDA event : \/ isHalfDayEvent(event)
                                       \/ isMajorHolidayEvent(event, includeHolHamoed))
    IN  [i \in 1..Len(included) |->
            [date        |-> ISODate(currentDate),
             name        |-> included[i].desc,
             isHalfDay   |-> isHalfDayEvent(included[i]),
             isHolHamoed |-> isHolHamoedEvent(included[i])]]

\* while (currentDate <= validation.end) { ...; currentDate.setDate(currentDate.getDate() + 1) }
RECURSIVE HolidaysLoop(_, _, _, _)
HolidaysLoop(currentDate, end, includeHolHamoed, acc) ==
    IF currentDate <= end
    THEN HolidaysLoop(NextDay(currentDate), end, includeHolHamoed,
            [holidays |-> acc.holidays \o HolidayEntries(currentDate, includeHolHamoed),
             queried  |-> acc.queried \cup {currentDate}])
    ELSE acc

\* getJewishHolidaysInRange answering an invalid range with null, as calculateDaysBetween does
getJewishHolidaysInRange_nullOnInvalid(startDate, endDate, includeHolHamoed) ==
    LET validation == validateDateRange(startDate, endDate)
    IN  IF ~validation.isValid
        THEN [kind |-> "null", holidays |-> <<>>, queried |-> {}]
        ELSE LET loop == HolidaysLoop(createDateCopy(validation.start), validation.end,
                                      includeHolHamoed, [holidays |-> <<>>, queried |-> {}])
             IN  [kind |-> "holidays", holidays |-> loop.holidays, queried |-> loop.queried]

\* kind, holidays: the array returned; queried: the Dates the oracle was asked about
getJewishHolidaysInRange(startDate, endDate, includeHolHamoed) ==
    LET validation == validateDateRange(startDate, endDate)
    IN  IF ~validation.isValid
        THEN [kind |-> "holidays", holidays |-> <<>>, queried |-> {}]
        ELSE LET loop == HolidaysLoop(createDateCopy(validation.start), validation.end,
                                      includeHolHamoed, [holidays |-> <<>>, queried |-> {}])
             IN  [kind |-> "holidays", holidays |-> loop.holidays, queried |-> loop.queried]

-----------------------------------------------------------------------------
(* The detailed calculation *)

\* One iteration of the day loop of calculateVacationDaysDetailed
TallyDay(currentDate, includeHolHamoed, acc) ==
    LET dayValue == getWorkDayValue(currentDate, includeHolHamoed)
        category ==
            IF isWeekend(currentDate) THEN "weekend"
            ELSE IF isJewishHalfDay(currentDate) THEN "half"
            ELSE IF isJewishHoliday(currentDate, includeHolHamoed) THEN "holiday"
            ELSE "work"
    IN  [workDays    |-> acc.workDays + (IF category = "work" THEN 1 ELSE 0),
         weekendDays |-> acc.weekendDays + (IF category = "weekend" THEN 1 ELSE 0),
         holidayDays |-> acc.holidayDays + (IF category = "holiday" THEN 1 ELSE 0),
         halfDays    |-> acc.halfDays + (IF category = "half" THEN 1 ELSE 0),
         vacationDaysNeeded |-> acc.vacationDaysNeeded + dayValue,
         visited     |-> Append(acc.visited, currentDate),
         queried     |-> acc.queried \cup WorkDayValueQueries(currentDate)]

RECURSIVE TallyLoop(_, _, _, _)
TallyLoop(currentDate, end, includeHolHamoed, acc) ==
    IF currentDate <= end
    THEN TallyLoop(NextDay(currentDate), end, includeHolHamoed,
                   TallyDay(currentDate, includeHolHamoed, acc))
    ELSE acc

\* The result, with two fields that are not part of it: visited, the Dates the
\* day loop iterated, and queried, the Dates the oracle was asked about.
calculateVacationDaysDetailed(startDate, endDate, includeHolHamoed) ==
    LET validation == validateDateRange(startDate, endDate)
    IN  IF ~validation.isValid
        THEN Null
        ELSE LET between   == calculateDaysBetween(startDate, endDate)
                 totalDays == IF between = Null \/ between.value = 0 THEN 0 ELSE between.value
                 listed    == getJewishHolidaysInRange(startDate, endDate, includeHolHamoed)
                 tally     == TallyLoop(createDateCopy(validation.start), validation.end,
                                  includeHolHamoed,
                                  [workDays |-> 0, weekendDays |-> 0, holidayDays |-> 0,
                                   halfDays |-> 0, vacationDaysNeeded |-> 0,
                                   visited |-> <<>>, queried |-> {}])
             IN  [kind        |-> "calculation",
                  totalDays   |-> totalDays,
                  workDays    |-> tally.workDays,
                  weekendDays |-> tally.weekendDays,
                  holidayDays |-> tally.holidayDays,
                  halfDays    |-> tally.halfDays,
                  vacationDaysNeeded |-> tally.vacationDaysNeeded,
                  holidays    |-> listed.holidays,
                  visited     |-> tally.visited,
                  queried     |-> listed.queried \cup tally.queried]

-----------------------------------------------------------------------------
(* Formatting.  A string is a sequence of its characters (a Hebrew word is *)
(* kept as one element); a number is given in half days.                   *)

HEBREW_DAY_FORMATS ==
    [ONE  |-> <<"yom", " ", "echad">>,   \* 'יום אחד'
     TWO  |-> <<"yomayim">>,             \* 'יומיים'
     MANY |-> <<"yamim">>]               \* 'ימים'

Digit(d) == <<"0", "1", "2", "3", "4", "5", "6", "7", "8", "9">>[d + 1]

\* The decimal digits of a natural number
RECURSIVE Digits(_)
Digits(n) == IF n < 10 THEN <<Digit(n)>> ELSE Append(Digits(n \div 10), Digit(n % 10))

\* `${days}`: Number::toString of a multiple of 0.5
NumberToString(days) ==
    LET abs == IF days < 0 THEN -days ELSE days
    IN  (IF days < 0 THEN <<"-">> ELSE <<>>)
            \o Digits(abs \div 2)
            \o (IF abs % 2 = 1 THEN <<".", "5">> ELSE <<>>)

\* Number.isInteger(days), days in half days
NumberIsInteger(days) == days % 2 = 0

\* formatDayCountHebrew deciding on Math.floor(days) instead of days
formatDayCountHebrew_floor(days) ==
    IF days < 0
    THEN NumberToString(days) \o <<" ">> \o HEBREW_DAY_FORMATS.MANY
    ELSE CASE days \div 2 = 1 -> HEBREW_DAY_FORMATS.ONE
           [] days \div 2 = 2 -> HEBREW_DAY_FORMATS.TWO
           [] OTHER           -> NumberToString(days) \o <<" ">> \o HEBREW_DAY_FORMATS.MANY

formatDayCountHebrew(days) ==
    IF ~NumberIsInteger(days) \/ days < 0
    THEN NumberToString(days) \o <<" ">> \o HEBREW_DAY_FORMATS.MANY
    ELSE CASE days = 2 -> HEBREW_DAY_FORMATS.ONE
           [] days = 4 -> HEBREW_DAY_FORMATS.TWO
           [] OTHER    -> NumberToString(days) \o <<" ">> \o HEBREW_DAY_FORMATS.MANY

\* formatDayCount without the singular form
formatDayCount_pluralOnly(days) == NumberToString(days) \o <<" ">> \o <<"days">>

\* The English formatter (imported by the tests; its definition is not in the
\* sources): `${n} day` for n = 1, `${n} days` for every other n
formatDayCount(days) ==
    NumberToString(days) \o <<" ">> \o (IF days = 2 THEN <<"day">> ELSE <<"days">>)

-----------------------------------------------------------------------------
(* Inputs and environments *)

Days == 0..MaxDay

Hours == {18}

DateStrings ==
    {[kind |-> "empty"], [kind |-> "text"]}
        \cup {[kind |-> "date", day |-> d] : d \in Days}
        \cup {[kind |-> "datetime", day |-> d, hour |-> h] : d \in Days, h \in Hours}

\* The Date arguments of the functions that take a Date: new Date(string), valid
Dates == {NewDate(s) : s \in {x \in DateStrings : x.kind \in {"date", "datetime"}}}

UTC == [before |-> 0, after |-> 0, at |-> 0]

Zones ==
    { UTC,
      [before |-> -5, after |-> -5, at |-> 0],     \* west of Greenwich, no DST
      [before |-> 3,  after |-> 2,  at |-> 71],    \* UTC+3 until Thursday 02:00 local, then UTC+2
      [before |-> 2,  after |-> 3,  at |-> 72] }   \* UTC+2 until Thursday 02:00 local, then UTC+3

\* The local calendar days a Date of the model can fall on
OracleDays == -1..(MaxDay + 1)

ErevPesach == Event({"EREV", "LIGHT_CANDLES"}, <<"Erev", "Pesach">>)

PesachI == Event({"CHAG", "YOM_TOV_ENDS"}, <<"Pesach", "I">>)

PesachIII == Event({"CHOL_HAMOED"}, <<"Pesach", "III", "(CH''M)">>)

RoshChodesh == Event({"ROSH_CHODESH"}, <<"Rosh", "Chodesh", "Iyyar">>)

TuBiShvat == Event({"MINOR_HOLIDAY"}, <<"Tu", "BiShvat">>)

YomHaAtzmaut == Event({"MODERN_HOLIDAY"}, <<"Yom", "HaAtzmaut">>)

\* What the library may do on a day that is not an ordinary day
Catalog ==
    { Undefined, Throws,
      Events(<<ErevPesach>>), Events(<<PesachI>>), Events(<<PesachIII>>),
      Events(<<RoshChodesh, TuBiShvat, YomHaAtzmaut>>) }

\* At most two days of the week are not ordinary, and they are consecutive:
\* Wednesday and Thursday, or Thursday and Friday
Calendars ==
    { [d \in OracleDays |-> IF d = d1 THEN a1 ELSE IF d = d1 + 1 THEN a2 ELSE Undefined] :
        d1 \in {2, 3}, a1 \in Catalog, a2 \in Catalog }

\* Every combination of the flags and descriptions the predicates look at
AllFlags == {"EREV", "CHAG", "YOM_TOV_ENDS", "CHOL_HAMOED"}

AllDescs ==
    { <<"Erev", "Pesach">>, <<"Rosh", "Hashana", "LaBehemot">>, <<"Tu", "BiShvat">>,
      <<"Yom", "HaZikaron">>, <<"Yom", "HaAtzmaut">>, <<"Yom", "Yerushalayim">>,
      <<"Pesach", "I">> }

AllEvents == {Event(f, d) : f \in SUBSET AllFlags, d \in AllDescs}

PairEvents ==
    { Event(f, d) : f \in {{}, {"EREV"}, {"CHAG"}, {"CHOL_HAMOED"}},
                    d \in {<<"Erev", "Pesach">>, <<"Yom", "HaAtzmaut">>, <<"Pesach", "I">>} }

\* One event of any kind, or two events of the kinds above, or no answer
RichAnswers ==
    {Undefined, Throws}
        \cup {Events(<<e>>) : e \in AllEvents}
        \cup {Events(<<a, b>>) : a \in PairEvents, b \in PairEvents}

\* Thursday or Friday is the one day that is not ordinary
RichCalendars ==
    { [d \in OracleDays |-> IF d = d1 THEN a ELSE Undefined] :
        d1 \in {3, 4}, a \in RichAnswers }

\* 'YYYY-MM-DD' strings of Thursday, Friday and Saturday, and their Dates
EventStrings == {[kind |-> "date", day |-> d] : d \in {3, 4, 5}}

EventDates == {NewDate(s) : s \in EventStrings}

\* The arguments of formatDayCountHebrew, in half days: -MaxCount/2 .. MaxCount/2
Counts == (-MaxCount)..MaxCount

\* The integer arguments of formatDayCount, in half days: 0 .. MaxCount/2, and 365
IntegerCounts == {c \in 0..MaxCount : c % 2 = 0} \cup {2 * 365}

\* Whether a call that asked the oracle about the Dates in q ends by an exception
Escaped(q) == \E d \in q : getHebrewCalendarEvents(d).thrown

-----------------------------------------------------------------------------
(* The state machine: the environment is fixed, the exported functions are *)
(* called one at a time, and a call leaves nothing behind.                 *)

Init ==
    /\ tz \in Zones
    /\ oracle \in Calendars
    /\ op = "none"
    /\ args = <<>>
    /\ result = Null
    /\ queries = {}
    /\ threw = FALSE

CallCalculateDaysBetween ==
    /\ op = "none"
    /\ \E s \in DateStrings, e \in DateStrings :
        /\ op' = "calculateDaysBetween"
        /\ args' = [startDate |-> s, endDate |-> e]
        /\ result' = calculateDaysBetween(s, e)
        /\ queries' = {}
        /\ threw' = FALSE
    /\ UNCHANGED <<tz, oracle>>

GetJewishHolidaysInRangeOn(strings) ==
    /\ op = "none"
    /\ \E s \in strings, e \in strings, h \in BOOLEAN :
        LET r == getJewishHolidaysInRange(s, e, h)
        IN  /\ op' = "getJewishHolidaysInRange"
            /\ args' = [startDate |-> s, endDate |-> e, includeHolHamoed |-> h]
            /\ result' = [kind |-> r.kind, holidays |-> r.holidays]
            /\ queries' = r.queried
            /\ threw' = Escaped(r.queried)
    /\ UNCHANGED <<tz, oracle>>

CallCalculateVacationDaysDetailed ==
    /\ op = "none"
    /\ \E s \in DateStrings, e \in DateStrings, h \in BOOLEAN :
        LET r == calculateVacationDaysDetailed(s, e, h)
        IN  /\ op' = "calculateVacationDaysDetailed"
            /\ args' = [startDate |-> s, endDate |-> e, includeHolHamoed |-> h]
            /\ result' = r
            /\ queries' = IF r = Null THEN {} ELSE r.queried
            /\ threw' = IF r = Null THEN FALSE ELSE Escaped(r.queried)
    /\ UNCHANGED <<tz, oracle>>

GetWorkDayValueOn(dates) ==
    /\ op = "none"
    /\ \E d \in dates, h \in BOOLEAN :
        /\ op' = "getWorkDayValue"
        /\ args' = [date |-> d, includeHolHamoed |-> h]
        /\ result' = Number(getWorkDayValue(d, h))
        /\ queries' = WorkDayValueQueries(d)
        /\ threw' = Escaped(WorkDayValueQueries(d))
    /\ UNCHANGED <<tz, oracle>>

CallIsWeekend ==
    /\ op = "none"
    /\ \E d \in Dates :
        /\ op' = "isWeekend"
        /\ args' = [date |-> d]
        /\ result' = [kind |-> "boolean", value |-> isWeekend(d)]
        /\ queries' = {}
        /\ threw' = FALSE
    /\ UNCHANGED <<tz, oracle>>

IsJewishHalfDayOn(dates) ==
    /\ op = "none"
    /\ \E d \in dates :
        /\ op' = "isJewishHalfDay"
        /\ args' = [date |-> d]
        /\ result' = [kind |-> "boolean", value |-> isJewishHalfDay(d)]
        /\ queries' = {d}
        /\ threw' = Escaped({d})
    /\ UNCHANGED <<tz, oracle>>

IsJewishHolidayOn(dates) ==
    /\ op = "none"
    /\ \E d \in dates, h \in BOOLEAN :
        /\ op' = "isJewishHoliday"
        /\ args' = [date |-> d, includeHolHamoed |-> h]
        /\ result' = [kind |-> "boolean", value |-> isJewishHoliday(d, h)]
        /\ queries' = {d}
        /\ threw' = Escaped({d})
    /\ UNCHANGED <<tz, oracle>>

CallFormatDayCountHebrew ==
    /\ op = "none"
    /\ \E days \in Counts :
        /\ op' = "formatDayCountHebrew"
        /\ args' = [days |-> days]
        /\ result' = [kind |-> "string", value |-> formatDayCountHebrew(days)]
        /\ queries' = {}
        /\ threw' = FALSE
    /\ UNCHANGED <<tz, oracle>>

CallFormatDayCount ==
    /\ op = "none"
    /\ \E days \in IntegerCounts :
        /\ op' = "formatDayCount"
        /\ args' = [days |-> days]
        /\ result' = [kind |-> "string", value |-> formatDayCount(days)]
        /\ queries' = {}
        /\ threw' = FALSE
    /\ UNCHANGED <<tz, oracle>>

\* The caller takes the result; nothing of the call remains
Return ==
    /\ op # "none"
    /\ op' = "none"
    /\ args' = <<>>
    /\ result' = Null
    /\ queries' = {}
    /\ threw' = FALSE
    /\ UNCHANGED <<tz, oracle>>

CallGetJewishHolidaysInRange == GetJewishHolidaysInRangeOn(DateStrings)

CallGetWorkDayValue == GetWorkDayValueOn(Dates)

CallIsJewishHalfDay == IsJewishHalfDayOn(Dates)

CallIsJewishHoliday == IsJewishHolidayOn(Dates)

Next ==
    \/ CallCalculateDaysBetween
    \/ CallGetJewishHolidaysInRange
    \/ CallCalculateVacationDaysDetailed
    \/ CallGetWorkDayValue
    \/ CallIsWeekend
    \/ CallIsJewishHalfDay
    \/ CallIsJewishHoliday
    \/ Return

\* The range calculations, in every zone, over calendars of catalogued days
Spec == Init /\ [][Next]_vars

-----------------------------------------------------------------------------
(* Day classification and listing over arbitrary events on one day *)

InitEvents ==
    /\ tz \in Zones
    /\ oracle \in RichCalendars
    /\ op = "none"
    /\ args = <<>>
    /\ result = Null
    /\ queries = {}
    /\ threw = FALSE

ClassifyEventDay == GetWorkDayValueOn(EventDates)

HalfDayOfEventDay == IsJewishHalfDayOn(EventDates)

HolidayOfEventDay == IsJewishHolidayOn(EventDates)

ListEventDays == GetJewishHolidaysInRangeOn(EventStrings)

NextEvents ==
    \/ ClassifyEventDay
    \/ HalfDayOfEventDay
    \/ HolidayOfEventDay
    \/ ListEventDays
    \/ Return

SpecEvents == InitEvents /\ [][NextEvents]_vars

-----------------------------------------------------------------------------
(* The formatter *)

InitFormat ==
    /\ tz = UTC
    /\ oracle = [d \in OracleDays |-> Undefined]
    /\ op = "none"
    /\ args = <<>>
    /\ result = Null
    /\ queries = {}
    /\ threw = FALSE

NextFormat ==
    \/ CallFormatDayCountHebrew
    \/ CallFormatDayCount
    \/ Return

SpecFormat == InitFormat /\ [][NextFormat]_vars

-----------------------------------------------------------------------------
(* Properties *)

IsCalculation == op = "calculateVacationDaysDetailed" /\ result # Null

\* The string is one Date can parse
Parseable(s) == s.kind \in {"date", "datetime"}

\* The events the library reports for the local day of a Date (none when it
\* throws or answers undefined)
ReportedEvents(date) ==
    LET answer == oracle[LocalTime(date) \div DAY]
    IN  IF answer.kind = "events" THEN answer.events ELSE <<>>

Weekday(date) == ((LocalTime(date) \div DAY) + 1) % 7

\* C1: every result of calculateVacationDaysDetailed has
\* totalDays = workDays + weekendDays + holidayDays + halfDays.
C1_Partition ==
    IsCalculation =>
        result.totalDays =
            result.workDays + result.weekendDays + result.holidayDays + result.halfDays

\* C2: every result of calculateVacationDaysDetailed has
\* 0 <= vacationDaysNeeded <= totalDays (vacationDaysNeeded is in half days).
C2_NeededWithinTotal ==
    IsCalculation =>
        /\ 0 <= result.vacationDaysNeeded
        /\ result.vacationDaysNeeded <= 2 * result.totalDays

\* A range of several days with a fractional number of vacation days
C2_Witness ==
    /\ IsCalculation
    /\ result.totalDays >= 3
    /\ result.vacationDaysNeeded % 2 = 1
    /\ result.vacationDaysNeeded < 2 * result.totalDays

\* C3: totalDays is the inclusive count of the calendar dates from the start
\* string's date to the end string's date, and the number of dates the day loop visits.
C3_TotalDaysInclusive ==
    IsCalculation =>
        /\ result.totalDays = args.endDate.day - args.startDate.day + 1
        /\ result.totalDays = Len(result.visited)

\* The range is one validateDateRange must reject
InvalidRange(s, e) ==
    \/ s.kind = "empty"
    \/ e.kind = "empty"
    \/ ~Parseable(s)
    \/ ~Parseable(e)
    \/ NewDate(s) > NewDate(e)

\* C4: calculateDaysBetween and calculateVacationDaysDetailed return null, throw
\* nothing and ask the oracle nothing when a string is empty or unparseable or
\* the parsed start is after the parsed end.
C4_InvalidIsNull ==
    (/\ op \in {"calculateDaysBetween", "calculateVacationDaysDetailed"}
     /\ InvalidRange(args.startDate, args.endDate))
        => (result = Null /\ ~threw /\ queries = {})

\* A range whose start is a later date than its end was rejected
C4_Witness ==
    /\ op = "calculateVacationDaysDetailed"
    /\ Parseable(args.startDate)
    /\ Parseable(args.endDate)
    /\ args.startDate.day > args.endDate.day
    /\ result = Null

\* C5: two parseable strings that name the same calendar date are accepted as a
\* one-day range, whatever their times of day.
C5_SameDateIsOneDay ==
    (/\ op = "calculateVacationDaysDetailed"
     /\ Parseable(args.startDate)
     /\ Parseable(args.endDate)
     /\ args.startDate.day = args.endDate.day)
        => (result # Null /\ result.totalDays = 1)

\* C6: getWorkDayValue is 0 on a Friday or Saturday; on another day 0.5 if an
\* event is a half-day event, else 0 if an event is a major holiday, else 1; a
\* day all of whose events have 'Erev' in the description is not a holiday.
C6_Precedence ==
    op = "getWorkDayValue" =>
        LET events   == ReportedEvents(args.date)
            weekend  == Weekday(args.date) \in {5, 6}
            anyHalf  == \E i \in DOMAIN events : isHalfDayEvent(events[i])
            anyMajor == \E i \in DOMAIN events :
                            isMajorHolidayEvent(events[i], args.includeHolHamoed)
            allErev  == /\ events # <<>>
                        /\ \A i \in DOMAIN events :
                                \E k \in DOMAIN events[i].desc : events[i].desc[k] = "Erev"
        IN  /\ weekend => result.value = 0
            /\ (~weekend /\ anyHalf) => result.value = 1
            /\ (~weekend /\ ~anyHalf /\ anyMajor) => result.value = 0
            /\ (~weekend /\ ~anyHalf /\ ~anyMajor) => result.value = 2
            /\ (~weekend /\ allErev) => result.value = 1

\* A working day with a half-day event and another event that is a major holiday
C6_Witness ==
    /\ op = "getWorkDayValue"
    /\ ~(Weekday(args.date) \in {5, 6})
    /\ \E i, j \in DOMAIN ReportedEvents(args.date) :
            /\ i # j
            /\ isHalfDayEvent(ReportedEvents(args.date)[i])
            /\ ~isMajorHolidayEvent(ReportedEvents(args.date)[i], args.includeHolHamoed)
            /\ isMajorHolidayEvent(ReportedEvents(args.date)[j], args.includeHolHamoed)
    /\ result.value = 1

\* The library throws on the local day of the Date
FailsOn(date) == oracle[LocalTime(date) \div DAY].kind = "throw"

\* The reported events of a Date that the holiday list must show
Qualifying(date, includeHolHamoed) ==
    SelectSeq(ReportedEvents(date),
              LAMBDA event : \/ isHalfDayEvent(event)
                             \/ isMajorHolidayEvent(event, includeHolHamoed))

\* The entries of a holiday list that carry the ISO date of a Date
EntriesOf(holidays, date) ==
    SelectSeq(holidays, LAMBDA entry : entry.date.day = date \div DAY)

\* The number of elements of a sequence of Dates that satisfy Test
CountDates(dates, Test(_)) == Cardinality({i \in DOMAIN dates : Test(dates[i])})

\* C7: a failure of the oracle does not leave the five functions; the failing
\* date counts as a date without events (weekend or work day, no entry in
\* holidays) and the dates after it are still visited, classified and listed.
C7_FailureContained ==
    /\ op \in {"isJewishHalfDay", "isJewishHoliday", "getWorkDayValue",
               "getJewishHolidaysInRange", "calculateVacationDaysDetailed"} => ~threw
    /\ (op \in {"isJewishHalfDay", "isJewishHoliday"} /\ FailsOn(args.date))
            => result.value = FALSE
    /\ (op = "getWorkDayValue" /\ FailsOn(args.date))
            => result.value = (IF Weekday(args.date) \in {5, 6} THEN 0 ELSE 2)
    /\ (op = "getJewishHolidaysInRange" \/ IsCalculation) =>
            \A d \in queries :
                /\ FailsOn(d) => EntriesOf(result.holidays, d) = <<>>
                /\ ~FailsOn(d) =>
                        Len(EntriesOf(result.holidays, d))
                            = Len(Qualifying(d, args.includeHolHamoed))
                /\ NextDay(d) <= NewDate(args.endDate) => NextDay(d) \in queries
    /\ IsCalculation =>
            /\ result.workDays + result.weekendDays + result.holidayDays + result.halfDays
                    = Len(result.visited)
            /\ \A i \in DOMAIN result.visited :
                    NextDay(result.visited[i]) <= NewDate(args.endDate)
                        => (i < Len(result.visited)
                                /\ result.visited[i + 1] = NextDay(result.visited[i]))
            /\ result.weekendDays
                    = CountDates(result.visited, LAMBDA d : Weekday(d) \in {5, 6})
            /\ result.workDays
                    = CountDates(result.visited,
                        LAMBDA d : /\ ~(Weekday(d) \in {5, 6})
                                   /\ \/ FailsOn(d)
                                      \/ \A k \in DOMAIN ReportedEvents(d) :
                                            /\ ~isHalfDayEvent(ReportedEvents(d)[k])
                                            /\ ~isMajorHolidayEvent(ReportedEvents(d)[k],
                                                                    args.includeHolHamoed))

\* A calculation over a working day on which the library throws, followed by
\* a day whose event is listed and counted
C7_Witness ==
    /\ IsCalculation
    /\ result.halfDays + result.holidayDays >= 1
    /\ \E i \in DOMAIN result.visited :
            /\ FailsOn(result.visited[i])
            /\ ~(Weekday(result.visited[i]) \in {5, 6})
            /\ i < Len(result.visited)
            /\ EntriesOf(result.holidays, result.visited[i + 1]) # <<>>

\* C8: getJewishHolidaysInRange lists exactly the reported events of the dates
\* of the range that are half-day events or major holidays, each with its name,
\* isHalfDay = the half-day predicate and isHolHamoed = the Chol HaMoed flag.
C8_ListedIffQualifying ==
    op = "getJewishHolidaysInRange" =>
        /\ \A d \in queries :
            LET entries == EntriesOf(result.holidays, d)
                events  == Qualifying(d, args.includeHolHamoed)
            IN  /\ Len(entries) = Len(events)
                /\ \A i \in DOMAIN entries :
                        /\ entries[i].name = events[i].desc
                        /\ entries[i].isHalfDay = isHalfDayEvent(events[i])
                        /\ entries[i].isHolHamoed = ("CHOL_HAMOED" \in events[i].flags)
        /\ \A i \in DOMAIN result.holidays :
                \E d \in queries : result.holidays[i].date.day = d \div DAY

\* A list made without Chol HaMoed counting as a holiday that shows an event
\* with the Chol HaMoed flag, from a range with an event that is not listed
C8_Witness ==
    /\ op = "getJewishHolidaysInRange"
    /\ ~args.includeHolHamoed
    /\ \E i \in DOMAIN result.holidays :
            result.holidays[i].isHolHamoed /\ ~result.holidays[i].isHalfDay
    /\ \E d \in queries :
            Len(Qualifying(d, args.includeHolHamoed)) < Len(ReportedEvents(d))

\* The value of a decimal digit
DigitValue(c) ==
    CASE c = "0" -> 0 [] c = "1" -> 1 [] c = "2" -> 2 [] c = "3" -> 3 [] c = "4" -> 4
      [] c = "5" -> 5 [] c = "6" -> 6 [] c = "7" -> 7 [] c = "8" -> 8 [] c = "9" -> 9

RECURSIVE NaturalValue(_)
NaturalValue(str) ==
    IF str = <<>> THEN 0
    ELSE 10 * NaturalValue(SubSeq(str, 1, Len(str) - 1)) + DigitValue(str[Len(str)])

\* The number, in half days, that a numeral '[-]digits[.5]' denotes
NumeralValue(str) ==
    LET negative == str[1] = "-"
        body     == IF negative THEN Tail(str) ELSE str
        half     == Len(body) >= 3 /\ body[Len(body) - 1] = "."
        whole    == IF half THEN SubSeq(body, 1, Len(body) - 2) ELSE body
        value    == 2 * NaturalValue(whole) + (IF half THEN DigitValue(body[Len(body)]) \div 5 ELSE 0)
    IN  IF negative THEN -value ELSE value

\* C10: formatDayCountHebrew gives the form for one day for exactly 1, the dual
\* form for exactly 2, and for every other number (0, negative, fractional) the
\* number itself, a space and the plural noun.
C10_HebrewForms ==
    op = "formatDayCountHebrew" =>
        LET days == args.days
            str  == result.value
        IN  /\ ~threw
            /\ days = 2 => str = <<"yom", " ", "echad">>
            /\ days = 4 => str = <<"yomayim">>
            /\ days \notin {2, 4} =>
                    /\ Len(str) >= 3
                    /\ str[Len(str)] = "yamim"
                    /\ str[Len(str) - 1] = " "
                    /\ NumeralValue(SubSeq(str, 1, Len(str) - 2)) = days

\* -1.5 was formatted as '-1.5 ' and the plural noun
C10_Witness ==
    /\ op = "formatDayCountHebrew"
    /\ args.days = -3
    /\ result.value = <<"-", "1", ".", "5", " ", "yamim">>

\* C11: formatDayCount maps an integer n to 'n day' when n is 1 and to
\* 'n days' for every other n (0 -> '0 days', 2 -> '2 days', 365 -> '365 days').
C11_EnglishForms ==
    op = "formatDayCount" =>
        LET days == args.days
            str  == result.value
        IN  /\ Len(str) >= 3
            /\ str[Len(str) - 1] = " "
            /\ NumeralValue(SubSeq(str, 1, Len(str) - 2)) = days
            /\ str[Len(str)] = (IF days = 2 THEN "day" ELSE "days")
            /\ days = 2 => str = <<"1", " ", "day">>
            /\ days = 0 => str = <<"0", " ", "days">>
            /\ days = 4 => str = <<"2", " ", "days">>
            /\ days = 730 => str = <<"3", "6", "5", " ", "days">>

\* 1 was formatted as '1 day'
C11_Witness ==
    /\ op = "formatDayCount"
    /\ args.days = 2
    /\ result.value = <<"1", " ", "day">>

WeekdayOfDay(d) == (d + 1) % 7

\* C13: isWeekend is true exactly on Fridays and Saturdays, and a valid range
\* all of whose dates are Fridays or Saturdays needs no vacation days:
\* weekendDays = totalDays and the other counters are 0, whatever the events.
C13_WeekendOnly ==
    /\ op = "isWeekend" => (result.value <=> Weekday(args.date) \in {5, 6})
    /\ (/\ IsCalculation
        /\ \A d \in args.startDate.day .. args.endDate.day : WeekdayOfDay(d) \in {5, 6})
            => /\ result.vacationDaysNeeded = 0
               /\ result.weekendDays = result.totalDays
               /\ result.workDays = 0
               /\ result.halfDays = 0
               /\ result.holidayDays = 0

\* C14: the work value and the category of every day agree, so that
\* vacationDaysNeeded = workDays + 0.5 * halfDays (here in half days); for a
\* range of one visited day: 0 iff weekend or holiday, 0.5 iff half day, 1 iff work day.
C14_ValueMatchesTally ==
    IsCalculation =>
        /\ result.vacationDaysNeeded = 2 * result.workDays + result.halfDays
        /\ Len(result.visited) = 1 =>
                /\ result.vacationDaysNeeded = 0
                        <=> result.weekendDays + result.holidayDays = 1
                /\ result.vacationDaysNeeded = 1 <=> result.halfDays = 1
                /\ result.vacationDaysNeeded = 2 <=> result.workDays = 1

\* A range with a day of every category
C14_Witness ==
    /\ IsCalculation
    /\ result.workDays >= 1
    /\ result.halfDays >= 1
    /\ result.holidayDays >= 1
    /\ result.weekendDays >= 1
    /\ result.vacationDaysNeeded = 2 * result.workDays + result.halfDays

\* The included events the library reports on calendar day d
QualifyingOnDay(d, includeHolHamoed) ==
    LET answer == oracle[d]
        events == IF answer.kind = "events" THEN answer.events ELSE <<>>
    IN  SelectSeq(events,
                  LAMBDA event : \/ isHalfDayEvent(event)
                                 \/ isMajorHolidayEvent(event, includeHolHamoed))

\* C15: the list returned for a valid range is in ascending date order, every
\* entry's date is a calendar date from the start string's to the end string's,
\* and a calendar date of the range with k included events has exactly k
\* entries, in the oracle's order.
C15_AscendingWithinRange ==
    (op = "getJewishHolidaysInRange" /\ ~InvalidRange(args.startDate, args.endDate)) =>
        LET holidays == result.holidays
        IN  /\ \A i, j \in DOMAIN holidays :
                    i < j => holidays[i].date.day <= holidays[j].date.day
            /\ \A i \in DOMAIN holidays :
                    /\ args.startDate.day <= holidays[i].date.day
                    /\ holidays[i].date.day <= args.endDate.day
            /\ \A d \in args.startDate.day .. args.endDate.day :
                    LET entries == SelectSeq(holidays, LAMBDA entry : entry.date.day = d)
                        events  == QualifyingOnDay(d, args.includeHolHamoed)
                    IN  /\ Len(entries) = Len(events)
                        /\ \A i \in DOMAIN entries : entries[i].name = events[i].desc

\* The description is one the predicates recognise by name
NamedDescription(desc) ==
    \/ \E k \in DOMAIN desc : desc[k] = "Erev"
    \/ desc \in { <<"Rosh", "Hashana", "LaBehemot">>, <<"Tu", "BiShvat">>,
                  <<"Yom", "HaZikaron">>, <<"Yom", "HaAtzmaut">>, <<"Yom", "Yerushalayim">> }

\* A day that is not a Friday or Saturday and whose only event carries only
\* the Chol HaMoed flag (and the name of a festival day)
HolHamoedOnly(date) ==
    /\ ~(Weekday(date) \in {5, 6})
    /\ Len(ReportedEvents(date)) = 1
    /\ ReportedEvents(date)[1].flags = {"CHOL_HAMOED"}
    /\ ~NamedDescription(ReportedEvents(date)[1].desc)

\* C16: a day that is not a weekend and whose only event carries only the Chol
\* HaMoed flag is a holiday with work value 0 and listed when includeHolHamoed
\* is true, and a work day with work value 1 and not listed when it is false.
C16_HolHamoedGate ==
    /\ (op = "getWorkDayValue" /\ HolHamoedOnly(args.date))
            => result.value = (IF args.includeHolHamoed THEN 0 ELSE 2)
    /\ (op = "isJewishHoliday" /\ HolHamoedOnly(args.date))
            => result.value = args.includeHolHamoed
    /\ (op = "isJewishHalfDay" /\ HolHamoedOnly(args.date)) => result.value = FALSE
    /\ (op = "getJewishHolidaysInRange" \/ IsCalculation) =>
            \A d \in queries :
                HolHamoedOnly(d) =>
                    EntriesOf(result.holidays, d) =
                        (IF args.includeHolHamoed
                         THEN << [date        |-> [kind |-> "date", day |-> d \div DAY],
                                  name        |-> ReportedEvents(d)[1].desc,
                                  isHalfDay   |-> FALSE,
                                  isHolHamoed |-> TRUE] >>
                         ELSE <<>>)
    /\ (/\ IsCalculation
        /\ result.visited # <<>>
        /\ \A i \in DOMAIN result.visited : HolHamoedOnly(result.visited[i]))
            => IF args.includeHolHamoed
               THEN /\ result.holidayDays = Len(result.visited)
                    /\ result.workDays = 0
                    /\ result.vacationDaysNeeded = 0
               ELSE /\ result.workDays = Len(result.visited)
                    /\ result.holidayDays = 0
                    /\ result.vacationDaysNeeded = 2 * Len(result.visited)

\* A calculation without Chol HaMoed over two such days: two work days, nothing listed
C16_Witness ==
    /\ IsCalculation
    /\ ~args.includeHolHamoed
    /\ Len(result.visited) = 2
    /\ \A i \in DOMAIN result.visited : HolHamoedOnly(result.visited[i])
    /\ result.workDays = 2
    /\ result.vacationDaysNeeded = 4
    /\ result.holidays = <<>>

\* The result of the same call with includeHolHamoed = true
WithHolHamoed == calculateVacationDaysDetailed(args.startDate, args.endDate, TRUE)

\* C17: for the same range and oracle, the result with includeHolHamoed = true
\* has the totalDays, weekendDays and halfDays of the result with false, no
\* fewer holidayDays, no more workDays or vacationDaysNeeded, and every entry
\* of the list made with false.
C17_MonotoneInHolHamoed ==
    (IsCalculation /\ ~args.includeHolHamoed) =>
        /\ WithHolHamoed # Null
        /\ WithHolHamoed.totalDays = result.totalDays
        /\ WithHolHamoed.weekendDays = result.weekendDays
        /\ WithHolHamoed.halfDays = result.halfDays
        /\ WithHolHamoed.holidayDays >= result.holidayDays
        /\ WithHolHamoed.workDays <= result.workDays
        /\ WithHolHamoed.vacationDaysNeeded <= result.vacationDaysNeeded
        /\ \A i \in DOMAIN result.holidays :
                \E j \in DOMAIN WithHolHamoed.holidays :
                    WithHolHamoed.holidays[j] = result.holidays[i]

\* A range where the switch turns a work day into a holiday and adds an entry
\* to a list that is not empty
C17_Witness ==
    /\ IsCalculation
    /\ ~args.includeHolHamoed
    /\ result.holidays # <<>>
    /\ WithHolHamoed.holidayDays > result.holidayDays
    /\ WithHolHamoed.workDays < result.workDays
    /\ WithHolHamoed.vacationDaysNeeded < result.vacationDaysNeeded
    /\ Len(WithHolHamoed.holidays) > Len(result.holidays)

\* The iterated Date is counted in halfDays or holidayDays
CountedAsHoliday(date) ==
    /\ ~(Weekday(date) \in {5, 6})
    /\ Qualifying(date, args.includeHolHamoed) # <<>>

\* C18: in a result of calculateVacationDaysDetailed every date counted in
\* halfDays or holidayDays has an entry in holidays, so that
\* halfDays + holidayDays <= Len(holidays), and the qualifying events of the
\* Fridays and Saturdays of the range, counted in weekendDays, are listed too.
C18_CountersAndList ==
    IsCalculation =>
        /\ result.halfDays + result.holidayDays
                = CountDates(result.visited, CountedAsHoliday)
        /\ \A i \in DOMAIN result.visited :
                CountedAsHoliday(result.visited[i])
                    => EntriesOf(result.holidays, result.visited[i]) # <<>>
        /\ result.halfDays + result.holidayDays <= Len(result.holidays)
        /\ \A i \in DOMAIN result.visited :
                Weekday(result.visited[i]) \in {5, 6} =>
                    LET entries == EntriesOf(result.holidays, result.visited[i])
                        events  == Qualifying(result.visited[i], args.includeHolHamoed)
                    IN  /\ Len(entries) = Len(events)
                        /\ \A k \in DOMAIN entries : entries[k].name = events[k].desc

\* A range with a half day or holiday and a Friday with a listed event: the
\* list is longer than the two counters together
C18_Witness ==
    /\ IsCalculation
    /\ result.halfDays >= 1
    /\ result.halfDays + result.holidayDays < Len(result.holidays)
    /\ \E i \in DOMAIN result.visited :
            /\ Weekday(result.visited[i]) \in {5, 6}
            /\ EntriesOf(result.holidays, result.visited[i]) # <<>>

\* The number of calendar dates from the start string's date to the end string's
DatesOfRange == args.endDate.day - args.startDate.day + 1

\* C19: for a valid range the day loops end after visiting each date of
\* [start, end] exactly once in ascending order: the cursor starts at the
\* start, advances by one day per iteration, never passes the end inside the
\* loop, and the next cursor after the last iteration is past the end.
C19_EachDateOnce ==
    /\ IsCalculation =>
            LET visited == result.visited
            IN  /\ Len(visited) = DatesOfRange
                /\ visited[1] = NewDate(args.startDate)
                /\ \A i \in DOMAIN visited :
                        /\ visited[i] <= NewDate(args.endDate)
                        /\ i < Len(visited) =>
                                /\ visited[i + 1] = NextDay(visited[i])
                                /\ visited[i + 1] > visited[i]
                /\ NextDay(visited[Len(visited)]) > NewDate(args.endDate)
    /\ (op = "getJewishHolidaysInRange" /\ ~InvalidRange(args.startDate, args.endDate)) =>
            /\ Cardinality(queries) = DatesOfRange
            /\ NewDate(args.startDate) \in queries
            /\ \A d \in queries :
                    /\ d <= NewDate(args.endDate)
                    /\ NextDay(d) > d
                    /\ NextDay(d) <= NewDate(args.endDate) => NextDay(d) \in queries

\* C20: getJewishHolidaysInRange called with an empty or unparseable string, or
\* with a start after the end, returns an empty list (not null), throws nothing
\* and asks the oracle about no date.
C20_InvalidIsEmptyList ==
    (op = "getJewishHolidaysInRange" /\ InvalidRange(args.startDate, args.endDate)) =>
        /\ result.kind = "holidays"
        /\ result.holidays = <<>>
        /\ result # Null
        /\ ~threw
        /\ queries = {}

\* A range whose start is a later date than its end, over days with listed
\* events, gave the empty list
C20_Witness ==
    /\ op = "getJewishHolidaysInRange"
    /\ Parseable(args.startDate)
    /\ Parseable(args.endDate)
    /\ args.startDate.day > args.endDate.day
    /\ \E d \in args.endDate.day .. args.startDate.day :
            QualifyingOnDay(d, args.includeHolHamoed) # <<>>
    /\ result = [kind |-> "holidays", holidays |-> <<>>]
    /\ queries = {}
====
